---------------------------- MODULE Spec2Model ----------------------------
(***************************************************************************)
(* Model of the planar HSA OpenCV renderer                                 *)
(* (hsa_visualization/planar_opencv_renderer.py) and of the Cartesian      *)
(* joystick control node                                                   *)
(* (hsa_joy_control/planar_hsa_cartesian_joy_control_node.py).             *)
(*                                                                         *)
(* Numbers.  Lengths and positions are integer multiples of one length     *)
(* unit, orientations are integer multiples of a quarter turn (so that     *)
(* sin and cos are exact), and pixels-per-meter is kept as the exact       *)
(* fraction ppm_num / ppm_den.  The float-to-int32 cast of chi2u is        *)
(* modelled on that exact fraction.  All geometry lengths are positive, so *)
(* that pixels-per-meter is finite.                                        *)
(*                                                                         *)
(* Exceptions.  A call that raises is a call whose result is the name of   *)
(* the exception and that returns no frame.  jax raises IndexError for an  *)
(* index into an axis of size 0 and clamps every other out-of-range index. *)
(*                                                                         *)
(* Frames.  A frame is the shape of its buffer and the sequence of paint   *)
(* operations applied to it; the background fill starts a new buffer.      *)
(***************************************************************************)
EXTENDS Integers, Sequences, FiniteSets, TLC

VARIABLES
    args,        \* the arguments robot_rendering_factory was called with
    built,       \* "unbuilt", "ok" (draw_robot_fn returned) or "config_error"
    rend,        \* the constants draw_robot_fn and chi2u close over
    provider_queries, \* calls of get_operational_workspace_boundaries so far
    chi,         \* the pose last handed to chi2u on its own: <<>> or <<pose>>
    uv,          \* what chi2u returned for it: <<>> or <<pixel>>
    uv_twin,     \* what chi2u of the renderer built with the mounting flag toggled returned
    calls,       \* number of draw_robot_fn calls made
    call,        \* the arguments of the last draw_robot_fn call: <<>> or <<record>>
    result,      \* its outcome: "none", "frame" or the exception raised
    img,         \* the frame it returned
    caller_img,  \* that buffer in the caller's hands
    chi_ps,      \* the poses it sampled along the backbone and the rods
    ext_ps,      \* the same curves with the two cap points added
    platform_curves, \* the platform polygons it constructed, in Cartesian coordinates
    ws_projections,  \* projections of the workspace polygon to pixels so far
    fk_failures, \* draw_robot_fn calls the kinematics functions rejected
    caller_wrote, \* whether the caller has written into a frame it was given
    ref,         \* call, result and img of the first call made with reference arguments
    node_state,  \* the joystick node: "unstarted", "spinning" or "crashed"
    cartesian_delta,    \* its parameter cartesian_delta, in position units
    invert_joy_signals, \* its parameter invert_joy_signals
    pee_y0,      \* its parameter pee_y0
    pee_wp,      \* its attractor position <<x, y>>
    joy_signals, \* the axes of the Joy messages its callback was called with, in order
    attractor_pub \* the PlanarSetpoint messages handed to its publisher, in order

projector_vars == <<chi, uv, uv_twin>>

frame_vars ==
    <<calls, call, result, img, caller_img, chi_ps, ext_ps, platform_curves,
      ws_projections, fk_failures, caller_wrote, ref>>

joy_vars ==
    <<node_state, cartesian_delta, invert_joy_signals, pee_y0, pee_wp, joy_signals,
      attractor_pub>>

vars == <<args, built, rend, provider_queries, projector_vars, frame_vars, joy_vars>>

(***************************************************************************)
(* Bounds of the explored input sets.                                      *)
(***************************************************************************)
MaxWidth == 5
MaxHeight == 6
MaxSeg == 3
MaxPos == 3
MaxN == 2
MaxFrames == 3
MaxJoy == 3

(***************************************************************************)
(* Small helpers.                                                          *)
(***************************************************************************)
RECURSIVE SumSeq(_)
SumSeq(s) == IF s = <<>> THEN 0 ELSE Head(s) + SumSeq(Tail(s))

Abs(n) == IF n < 0 THEN -n ELSE n

Max2(a, b) == IF a >= b THEN a ELSE b

Min2(a, b) == IF a <= b THEN a ELSE b

Reverse(s) == [i \in 1..Len(s) |-> s[Len(s) + 1 - i]]

\* sin and cos of th quarter turns
Sin4(th) == CASE th % 4 = 0 -> 0 [] th % 4 = 1 -> 1 [] th % 4 = 2 -> 0 [] OTHER -> -1

Cos4(th) == CASE th % 4 = 0 -> 1 [] th % 4 = 1 -> 0 [] th % 4 = 2 -> -1 [] OTHER -> 0

(***************************************************************************)
(* numpy broadcasting of one-dimensional arrays, as used by                *)
(* params["lpc"] + params["l"] + params["ldc"].                            *)
(***************************************************************************)
Broadcastable(a, b) == Len(a) = Len(b) \/ Len(a) = 1 \/ Len(b) = 1

BroadcastAdd(a, b) ==
    [i \in 1..Max2(Len(a), Len(b)) |->
        (IF Len(a) = 1 THEN a[1] ELSE a[i]) + (IF Len(b) = 1 THEN b[1] ELSE b[i])]

\* whether lpc + l + ldc raises a shape error
LengthsAddable(p) ==
    /\ Broadcastable(p.lpc, p.l)
    /\ Broadcastable(BroadcastAdd(p.lpc, p.l), p.ldc)

TotalLength(p) == SumSeq(BroadcastAdd(BroadcastAdd(p.lpc, p.l), p.ldc))

(***************************************************************************)
(* The Coordinate Projector.                                               *)
(***************************************************************************)
\* a faulty variant of ToInt32: rounds toward minus infinity
ToInt32Floor(num, den) == num \div den

\* jnp.array(x, dtype=jnp.int32) of the real number num / den (den > 0):
\* the cast drops the fractional part, toward zero
ToInt32(num, den) == IF num >= 0 THEN num \div den ELSE -((-num) \div den)

\* a faulty variant of uv_robot_origin: the mounting flag is not looked at
uv_robot_origin_unmounted(a) == [u |-> a.width \div 2, v |-> a.height]

uv_robot_origin(a) ==
    IF a.inverted_coordinates
    THEN [u |-> a.width \div 2, v |-> 0]
    ELSE [u |-> a.width \div 2, v |-> a.height]

\* a faulty variant of ApplyMounting: the inverted mounting negates both components
ApplyMountingBoth(inverted, off) ==
    IF inverted THEN [u |-> -off.u, v |-> -off.v] ELSE [u |-> off.u, v |-> -off.v]

\* the branch of chi2u on inverted_coordinates
ApplyMounting(inverted, off) ==
    IF inverted THEN [u |-> -off.u, v |-> off.v] ELSE [u |-> off.u, v |-> -off.v]

\* uv_off before the mounting branch
ScaledOffset(r, p) ==
    [u |-> ToInt32(p.x * r.ppm_num, r.ppm_den), v |-> ToInt32(p.y * r.ppm_num, r.ppm_den)]

chi2u(r, p) ==
    LET off == ApplyMounting(r.inverted_coordinates, ScaledOffset(r, p))
    IN  [u |-> r.uv_robot_origin.u + off.u, v |-> r.uv_robot_origin.v + off.v]

batched_chi2u(r, ps) == [i \in 1..Len(ps) |-> chi2u(r, ps[i])]

(***************************************************************************)
(* The kinematics functions and the workspace-boundary provider are        *)
(* supplied from outside the module.  They are pure functions; the ones    *)
(* below are deterministic stand-ins.  A configuration q is a sequence of  *)
(* integers, three per segment (bending in quarter turns per unit length,  *)
(* shear, axial).  An arc length s is the exact fraction s.num / s.den.    *)
(***************************************************************************)
\* q[k], 1-based, with the index clamped into the array as jax does
QAt(q, k) == q[Min2(k, Len(q))]

\* whether the supplied kinematics functions evaluate q: strict ones raise on
\* a q that has not three entries per segment, lenient ones index into it
FKAccepts(a, q) == Len(q) > 0 /\ (a.fk_lenient \/ Len(q) = 3 * Len(a.params.l))

forward_kinematics_virtual_backbone_fn(p, q, s) ==
    LET d == s.num \div s.den
    IN  [x |-> QAt(q, 2) * d, y |-> d + QAt(q, 3) * d, th |-> QAt(q, 1) * d]

\* rod 0 runs one unit to the left of the backbone, rod 1 one unit to the right
forward_kinematics_rod_fn(p, q, s, rod) ==
    LET c == forward_kinematics_virtual_backbone_fn(p, q, s)
        side == IF rod = 0 THEN -1 ELSE 1
    IN  [x |-> c.x + side * Cos4(c.th), y |-> c.y + side * Sin4(c.th), th |-> c.th]

\* the platform of segment i (0-based) sits at the end of that segment
forward_kinematics_platform_fn(p, q, i) ==
    forward_kinematics_virtual_backbone_fn(
        p, q, [num |-> SumSeq(SubSeq(p.l, 1, i + 1)), den |-> 1])

forward_kinematics_end_effector_fn(p, q) ==
    LET c == forward_kinematics_virtual_backbone_fn(p, q, [num |-> SumSeq(p.l), den |-> 1])
        ldc == p.ldc[Len(p.ldc)]
    IN  [x |-> c.x - Sin4(c.th) * ldc + p.chiee_off.x,
         y |-> c.y + Cos4(c.th) * ldc + p.chiee_off.y,
         th |-> c.th + p.chiee_off.th]

get_operational_workspace_boundaries(hsa_material, end_effector_attached) ==
    LET dy == IF end_effector_attached THEN 1 ELSE 0
    IN  [ pee_min_ps |-> <<[x |-> -2, y |-> 1 + dy], [x |-> -2, y |-> 3 + dy]>>,
          pee_max_ps |-> <<[x |-> 2, y |-> 1 + dy], [x |-> 2, y |-> 3 + dy]>> ]

(***************************************************************************)
(* The closure built by robot_rendering_factory.                           *)
(***************************************************************************)
Palette(invert_colors) ==
    IF invert_colors
    THEN [ background_color |-> <<0, 0, 0>>, base_color |-> <<255, 255, 255>>,
           backbone_color |-> <<255, 0, 0>>, rod_color |-> <<255, 0, 0>>,
           platform_color |-> <<255, 0, 0>>, end_effector_color |-> <<255, 255, 255>>,
           setpoint_color |-> <<0, 0, 255>>, attractor_color |-> <<82, 128, 3>>,
           ws_background_color |-> <<70, 70, 70>>, ws_boundary_color |-> <<255, 255, 255>>,
           active_attraction_axis_color |-> <<255, 255, 255>> ]
    ELSE [ background_color |-> <<255, 255, 255>>, base_color |-> <<0, 0, 0>>,
           backbone_color |-> <<255, 0, 0>>, rod_color |-> <<0, 0, 0>>,
           platform_color |-> <<0, 0, 0>>, end_effector_color |-> <<255, 0, 0>>,
           setpoint_color |-> <<0, 0, 255>>, attractor_color |-> <<0, 255, 0>>,
           ws_background_color |-> <<160, 160, 160>>, ws_boundary_color |-> <<0, 0, 0>>,
           active_attraction_axis_color |-> <<0, 0, 0>> ]

\* jnp.linspace(0, total, n)
Linspace(total, n) ==
    [i \in 1..n |-> IF n = 1 THEN [num |-> 0, den |-> 1]
                            ELSE [num |-> (i - 1) * total, den |-> n - 1]]

end_effector_attached(p) == ~(p.chiee_off.x = 0 /\ p.chiee_off.y = 0)

\* ws_boundary_ps: the provider's minimum sequence, then its maximum sequence reversed
ws_boundary_ps(a) ==
    IF a.draw_operational_workspace
    THEN LET b == get_operational_workspace_boundaries(
                      a.hsa_material, end_effector_attached(a.params))
         IN  b.pee_min_ps \o Reverse(b.pee_max_ps)
    ELSE <<>>

Closure(a) ==
    [ num_segments |-> Len(a.params.l),
      params |-> a.params,
      fk_lenient |-> a.fk_lenient,
      w |-> a.width,
      h |-> a.height,
      ppm_num |-> a.height,
      ppm_den |-> 2 * TotalLength(a.params),
      palette |-> Palette(a.invert_colors),
      inverted_coordinates |-> a.inverted_coordinates,
      uv_robot_origin |-> uv_robot_origin(a),
      s_ps |-> Linspace(SumSeq(a.params.l), a.num_points),
      draw_operational_workspace |-> a.draw_operational_workspace,
      ws_boundary_ps |-> ws_boundary_ps(a) ]

\* the provider is called in the factory, when the overlay is enabled
ProviderQueriesAtConstruction(a) == IF a.draw_operational_workspace THEN 1 ELSE 0

(***************************************************************************)
(* Geometry Extension and platform polygons.                               *)
(***************************************************************************)
\* a faulty variant of ExtendCurve: the distal cap point is left out
ExtendCurveNoDistalCap(p, ps) ==
    <<[x |-> ps[1].x, y |-> ps[1].y - p.lpc[1], th |-> ps[1].th]>> \o ps

\* jnp.concatenate([first - (0, lpc[0], 0), ps, last + (-sin*ldc[-1], cos*ldc[-1], theta)])
\* for a curve ps with at least one pose
ExtendCurve(p, ps) ==
    LET head == ps[1]
        tail == ps[Len(ps)]
        ldc == p.ldc[Len(p.ldc)]
    IN  <<[x |-> head.x, y |-> head.y - p.lpc[1], th |-> head.th]>>
        \o ps
        \o <<[x |-> tail.x - Sin4(tail.th) * ldc,
              y |-> tail.y + Cos4(tail.th) * ldc,
              th |-> tail.th + tail.th]>>

\* chip[:2] + platform_R @ (sx * pcudim[i, 0] / 2, sy * pcudim[i, 1] / 2); the
\* platform dimensions of the model are even, so the halves are exact
PlatformCorner(chip, dim, sx, sy) ==
    LET dx == sx * (dim.w \div 2)
        dy == sy * (dim.h \div 2)
    IN  [x |-> chip.x + Cos4(chip.th) * dx - Sin4(chip.th) * dy,
         y |-> chip.y + Sin4(chip.th) * dx + Cos4(chip.th) * dy]

\* params["pcudim"][i] for the 1-based row i, the index clamped as jax does
PcudimRow(p, i) == p.pcudim[Min2(i, Len(p.pcudim))]

\* a faulty variant of platform_curve: the first corner is not repeated at the end
platform_curve_open(p, chip, i) ==
    LET dim == PcudimRow(p, i)
    IN  << PlatformCorner(chip, dim, -1, -1), PlatformCorner(chip, dim, -1, 1),
           PlatformCorner(chip, dim, 1, 1), PlatformCorner(chip, dim, 1, -1),
           PlatformCorner(chip, dim, 1, -1) >>

\* platform_curve of the platform with 1-based index i and pose chip
platform_curve(p, chip, i) ==
    LET dim == PcudimRow(p, i)
        platform_llc == PlatformCorner(chip, dim, -1, -1)
        platform_ulc == PlatformCorner(chip, dim, -1, 1)
        platform_urc == PlatformCorner(chip, dim, 1, 1)
        platform_lrc == PlatformCorner(chip, dim, 1, -1)
    IN  <<platform_llc, platform_ulc, platform_urc, platform_lrc, platform_llc>>

(***************************************************************************)
(* The Scene Composer, draw_robot_fn.  A frame is the buffer's shape and   *)
(* the paint operations applied to it, in the order they were applied.     *)
(***************************************************************************)
\* size is the thickness, radius or half side of the shape; idx is the loop
\* index of a platform and the position of an arrow in its pair
Op(layer, shape, color, pts, size, idx) ==
    [ layer |-> layer, shape |-> shape, color |-> color, pts |-> pts,
      size |-> size, idx |-> idx ]

Paint(im, op) == [im EXCEPT !.ops = Append(@, op)]

NoImg == [rows |-> 0, cols |-> 0, channels |-> 0, ops |-> <<>>]

\* a faulty variant of InitBackground: the buffer handed out by the previous call is
\* drawn into again, without allocating and filling a new one
InitBackgroundReused(r, prev) ==
    IF prev.ops = <<>>
    THEN [ rows |-> r.w, cols |-> r.h, channels |-> 3,
           ops |-> <<Op("background", "fill", r.palette.background_color, <<>>, 0, 0)>> ]
    ELSE prev

\* img = onp.zeros((w, h, 3)) filled with the background colour: a new buffer
\* on every call; the buffer returned earlier (prev) is not touched
InitBackground(r, prev) ==
    [ rows |-> r.w, cols |-> r.h, channels |-> 3,
      ops |-> <<Op("background", "fill", r.palette.background_color, <<>>, 0, 0)>> ]

\* a faulty variant of DrawWorkspace: the provider is asked again on every frame
DrawWorkspaceRequery(r, im) ==
    IF r.draw_operational_workspace
    THEN [ img |-> Paint(im, Op("workspace", "fillPoly", r.palette.ws_background_color,
                                batched_chi2u(r, r.ws_boundary_ps), -1, 0)),
           projections |-> 1, queries |-> 1 ]
    ELSE [img |-> im, projections |-> 0, queries |-> 0]

\* the overlay step: the cached Cartesian polygon is projected and filled
DrawWorkspace(r, im) ==
    IF r.draw_operational_workspace
    THEN [ img |-> Paint(im, Op("workspace", "fillPoly", r.palette.ws_background_color,
                                batched_chi2u(r, r.ws_boundary_ps), -1, 0)),
           projections |-> 1, queries |-> 0 ]
    ELSE [img |-> im, projections |-> 0, queries |-> 0]

\* the two cv2.polylines calls
DrawRods(r, im, chiL_ps, chiR_ps) ==
    Paint(Paint(im, Op("rod_left", "polylines", r.palette.rod_color,
                       batched_chi2u(r, chiL_ps), 18, 0)),
          Op("rod_right", "polylines", r.palette.rod_color, batched_chi2u(r, chiR_ps), 18, 0))

\* the loop over the platforms; idx is the 0-based loop index i
DrawPlatforms(r, im, curves) ==
    [im EXCEPT !.ops = @ \o
        [k \in 1..Len(curves) |->
            Op("platform", "fillPoly", r.palette.platform_color,
               batched_chi2u(r, curves[k]), -1, k - 1)]]

SetpointOps(r, chiee_des) ==
    IF chiee_des # <<>>
    THEN <<Op("setpoint", "circle", r.palette.setpoint_color, <<chi2u(r, chiee_des[1])>>, 16, 0)>>
    ELSE <<>>

AttractorOps(r, chiee_at) ==
    IF chiee_at # <<>>
    THEN LET c == chi2u(r, chiee_at[1])
         IN  <<Op("attractor", "rectangle", r.palette.attractor_color,
                  <<[u |-> c.u - 13, v |-> c.v - 13], [u |-> c.u + 13, v |-> c.v + 13]>>, 13, 0)>>
    ELSE <<>>

\* a faulty variant of EndEffectorOps: the end-effector circle needs both poses
EndEffectorOpsWhenBoth(r, q, chiee_des, chiee_at) ==
    IF chiee_des # <<>> /\ chiee_at # <<>>
    THEN <<Op("end_effector", "circle", r.palette.end_effector_color,
              <<chi2u(r, forward_kinematics_end_effector_fn(r.params, q))>>, 11, 0)>>
    ELSE <<>>

\* the circle of the present end-effector pose, when either pose was passed
EndEffectorOps(r, q, chiee_des, chiee_at) ==
    IF chiee_des # <<>> \/ chiee_at # <<>>
    THEN <<Op("end_effector", "circle", r.palette.end_effector_color,
              <<chi2u(r, forward_kinematics_end_effector_fn(r.params, q))>>, 11, 0)>>
    ELSE <<>>

\* a faulty variant of DrawMarkers: the end-effector circle is painted first
DrawMarkersEndEffectorFirst(r, im, q, chiee_des, chiee_at) ==
    [im EXCEPT !.ops = @ \o EndEffectorOps(r, q, chiee_des, chiee_at)
                         \o SetpointOps(r, chiee_des) \o AttractorOps(r, chiee_at)]

\* setpoint circle, attractor square, end-effector circle
DrawMarkers(r, im, q, chiee_des, chiee_at) ==
    [im EXCEPT !.ops = @ \o SetpointOps(r, chiee_des) \o AttractorOps(r, chiee_at)
                         \o EndEffectorOps(r, q, chiee_des, chiee_at)]

\* a faulty variant of DrawArrows: every axis other than x gets the vertical arrows
DrawArrowsElse(r, im, active_attraction_axis) ==
    LET c == r.palette.active_attraction_axis_color
        o == [u |-> 25, v |-> 25]
    IN  IF active_attraction_axis = 0
        THEN Paint(Paint(im, Op("arrow", "arrowedLine", c, <<o, [u |-> 25 + 15, v |-> 25]>>, 3, 0)),
                   Op("arrow", "arrowedLine", c, <<o, [u |-> 25 - 15, v |-> 25]>>, 3, 1))
        ELSE Paint(Paint(im, Op("arrow", "arrowedLine", c, <<o, [u |-> 25, v |-> 25 + 15]>>, 3, 0)),
                   Op("arrow", "arrowedLine", c, <<o, [u |-> 25, v |-> 25 - 15]>>, 3, 1))

\* the arrows of the active attraction axis, from arrow_origin = (25, 25)
DrawArrows(r, im, active_attraction_axis) ==
    LET c == r.palette.active_attraction_axis_color
        o == [u |-> 25, v |-> 25]
    IN  IF active_attraction_axis = 0
        THEN Paint(Paint(im, Op("arrow", "arrowedLine", c, <<o, [u |-> 25 + 15, v |-> 25]>>, 3, 0)),
                   Op("arrow", "arrowedLine", c, <<o, [u |-> 25 - 15, v |-> 25]>>, 3, 1))
        ELSE IF active_attraction_axis = 1
        THEN Paint(Paint(im, Op("arrow", "arrowedLine", c, <<o, [u |-> 25, v |-> 25 + 15]>>, 3, 0)),
                   Op("arrow", "arrowedLine", c, <<o, [u |-> 25, v |-> 25 - 15]>>, 3, 1))
        ELSE im

NoCurves == [v |-> <<>>, L |-> <<>>, R |-> <<>>]

\* the batch evaluation of draw_robot_fn's first lines
SampledCurves(r, q) ==
    [ v |-> [k \in 1..Len(r.s_ps) |->
                forward_kinematics_virtual_backbone_fn(r.params, q, r.s_ps[k])],
      L |-> [k \in 1..Len(r.s_ps) |-> forward_kinematics_rod_fn(r.params, q, r.s_ps[k], 0)],
      R |-> [k \in 1..Len(r.s_ps) |-> forward_kinematics_rod_fn(r.params, q, r.s_ps[k], 1)] ]

PlatformPoses(r, q) ==
    [i \in 1..r.num_segments |-> forward_kinematics_platform_fn(r.params, q, i - 1)]

\* the three curves with their cap points; chiv_ps[:, 0] of an array without
\* columns raises, and then no curve is built
ExtendedCurves(r, sampled) ==
    IF Len(r.s_ps) = 0
    THEN NoCurves
    ELSE [ v |-> ExtendCurve(r.params, sampled.v),
           L |-> ExtendCurve(r.params, sampled.L),
           R |-> ExtendCurve(r.params, sampled.R) ]

PlatformCurves(r, chip_ps) ==
    [i \in 1..Len(chip_ps) |-> platform_curve(r.params, chip_ps[i], i)]

\* the paint calls of draw_robot_fn after the overlay step, in the order of the code
PaintRobot(r, im, q, chiee_des, chiee_at, active_attraction_axis, ext, curves) ==
    DrawArrows(r,
        DrawMarkers(r, DrawPlatforms(r, DrawRods(r, im, ext.L, ext.R), curves),
                    q, chiee_des, chiee_at),
        active_attraction_axis)

\* what one call of draw_robot_fn comes to: sampled and chip_ps are the batch
\* evaluator's poses, ws the buffer after the overlay step, painted the frame
Outcome(r, a, q, sampled, ws, ext, curves, painted) ==
    IF ~FKAccepts(a, q)
    THEN [ result |-> "kinematics_error", img |-> NoImg, chi_ps |-> NoCurves,
           ext_ps |-> NoCurves, platform_curves |-> <<>>, projections |-> 0, queries |-> 0 ]
    ELSE IF Len(r.s_ps) = 0
    THEN [ result |-> "IndexError", img |-> NoImg, chi_ps |-> sampled,
           ext_ps |-> NoCurves, platform_curves |-> <<>>,
           projections |-> ws.projections, queries |-> ws.queries ]
    ELSE [ result |-> "frame", img |-> painted, chi_ps |-> sampled, ext_ps |-> ext,
           platform_curves |-> curves,
           projections |-> ws.projections, queries |-> ws.queries ]

(***************************************************************************)
(* Inputs.                                                                 *)
(***************************************************************************)
\* geometry with n flexible segments, ncap cap lengths and npc platform rows
Geometry(n, ncap, npc, off) ==
    [ l |-> [i \in 1..n |-> 1 + i],
      lpc |-> [i \in 1..ncap |-> 1],
      ldc |-> [i \in 1..ncap |-> 1],
      pcudim |-> [i \in 1..npc |-> [w |-> 2 + 2 * i, h |-> 2]],
      chiee_off |-> [x |-> off, y |-> off, th |-> 0] ]

FactoryArgs(wd, ht, n, ncap, npc, off, np, inv, colors, ws, lenient) ==
    [ width |-> wd, height |-> ht, num_points |-> np,
      inverted_coordinates |-> inv, invert_colors |-> colors,
      draw_operational_workspace |-> ws, hsa_material |-> "fpu",
      params |-> Geometry(n, ncap, npc, off), fk_lenient |-> lenient ]

Poses == [x : -MaxPos..MaxPos, y : -MaxPos..MaxPos, th : 0..3]

ToggleMounting(a) == [a EXCEPT !.inverted_coordinates = ~@]

ProjectorArgs ==
    { FactoryArgs(wd, ht, n, n, n, 0, 2, inv, FALSE, FALSE, FALSE) :
        wd \in 0..MaxWidth, ht \in 0..MaxHeight, inv \in BOOLEAN, n \in 1..MaxSeg }

\* the factory arguments of the frame specification: a default renderer on a
\* 5 x 6 canvas, varied in its number of segments, in the number of cap lengths
\* and of platform rows given for two segments, in its sample count and in its flags
FrameArgs ==
    { FactoryArgs(5, 6, n, n, n, 0, 2, FALSE, FALSE, FALSE, FALSE) : n \in 1..MaxSeg }
    \cup { FactoryArgs(5, 6, 2, ncap, 2, 0, 2, FALSE, FALSE, FALSE, FALSE) :
        ncap \in 1..MaxSeg }
    \cup { FactoryArgs(5, 6, 2, 2, npc, 0, 2, FALSE, FALSE, FALSE, FALSE) :
        npc \in 1..MaxSeg }
    \cup { FactoryArgs(5, 6, 1, 1, 1, 0, np, FALSE, FALSE, ws, FALSE) :
        np \in 0..MaxN, ws \in BOOLEAN }
    \cup { FactoryArgs(5, 6, 2, 2, 2, off, 2, inv, FALSE, TRUE, lenient) :
        off \in {0, 1}, inv \in BOOLEAN, lenient \in BOOLEAN }
    \cup { FactoryArgs(5, 6, 1, 1, 1, 0, 2, FALSE, TRUE, FALSE, TRUE) }

\* a configuration of the given length that repeats the strains st
Config(st, len) == [k \in 1..len |-> st[((k - 1) % 3) + 1]]

\* well-formed configurations of n segments, one too short and one too long
Configurations(n) ==
    { Config(<<0, 0, 0>>, 3 * n), Config(<<1, 1, 0>>, 3 * n),
      Config(<<1, 1, 0>>, 3 * n - 1), Config(<<1, 1, 0>>, 3 * n + 1) }

OptionalPoses(p) == {<<>>, <<p>>}

\* values of active_attraction_axis: the default -1, x, y and an index of no axis
AttractionAxes == {-1, 0, 1, 2}

\* the axis values tried with a configuration: all of them with a well-formed
\* one, the default with a malformed one
AxesTried(n, q) == IF Len(q) = 3 * n THEN AttractionAxes ELSE {-1}

DesiredPose == [x |-> 1, y |-> 2, th |-> 0]

AttractorPose == [x |-> -1, y |-> 3, th |-> 0]

\* the calls whose first outcome is remembered, to compare later calls with:
\* a well-formed one with every annotation and a malformed one
ReferenceCalls(n) ==
    { [ q |-> Config(<<1, 1, 0>>, 3 * n), chiee_des |-> <<DesiredPose>>,
        chiee_at |-> <<AttractorPose>>, active_attraction_axis |-> 0 ],
      [ q |-> Config(<<1, 1, 0>>, 3 * n + 1), chiee_des |-> <<DesiredPose>>,
        chiee_at |-> <<>>, active_attraction_axis |-> -1 ] }

(***************************************************************************)
(* The joystick control node.  Positions are integer multiples of one      *)
(* position unit, the default cartesian_delta of 1e-4 m being one unit;    *)
(* joy axes are integer deflections.  A position is the sequence <<x, y>>. *)
(***************************************************************************)
\* scalar * array
Scale(c, a) == [i \in 1..Len(a) |-> c * a[i]]

\* a faulty variant of NextAttractor: the joy signal is subtracted whatever the flag
NextAttractorAlwaysInverted(inverted, delta, wp, joy_signal) ==
    BroadcastAdd(wp, Scale(-delta, joy_signal))

\* the position of the next attractor: pee_wp -/+ cartesian_delta * joy_signal
NextAttractor(inverted, delta, wp, joy_signal) ==
    IF inverted
    THEN BroadcastAdd(wp, Scale(-delta, joy_signal))
    ELSE BroadcastAdd(wp, Scale(delta, joy_signal))

\* PlanarSetpoint with chiee_des = Pose2D(x=pee_wp[0], y=pee_wp[1], theta=0.0)
PlanarSetpoint(wp) == [chiee_des |-> [x |-> wp[1], y |-> wp[2], theta |-> 0]]

\* axes of the Joy messages delivered: two axes with deflections -1, 0 or 1,
\* a single axis, and three axes
JoyAxes ==
    { <<a, b>> : a \in {-1, 0, 1}, b \in {-1, 0, 1} } \cup { <<1>>, <<1, -1, 1>> }

\* the parameters the node is started with
JoyParameters ==
    [cartesian_delta : {1, 2}, invert_joy_signals : BOOLEAN, pee_y0 : {0, 3}]

\* no joystick node is running
NoJoyNode ==
    /\ node_state = "unstarted"
    /\ cartesian_delta = 1
    /\ invert_joy_signals = TRUE
    /\ pee_y0 = 0
    /\ pee_wp = <<0, 0>>
    /\ joy_signals = <<>>
    /\ attractor_pub = <<>>

(***************************************************************************)
(* The projector on its own: a renderer is built from any of the           *)
(* ProjectorArgs and chi2u is applied to a pose.                           *)
(***************************************************************************)
NoFrameYet ==
    /\ calls = 0
    /\ call = <<>>
    /\ result = "none"
    /\ img = NoImg
    /\ caller_img = NoImg
    /\ chi_ps = NoCurves
    /\ ext_ps = NoCurves
    /\ platform_curves = <<>>
    /\ ws_projections = 0
    /\ fk_failures = 0
    /\ caller_wrote = FALSE
    /\ ref = <<>>

InitProjector ==
    /\ args \in ProjectorArgs
    /\ built = "ok"
    /\ rend = Closure(args)
    /\ provider_queries = ProviderQueriesAtConstruction(args)
    /\ chi = <<>>
    /\ uv = <<>>
    /\ uv_twin = <<>>
    /\ NoFrameYet
    /\ NoJoyNode

\* chi2u is a pure function of (closure, pose): each renderer projects one pose
Project ==
    \E p \in Poses :
        /\ chi = <<>>
        /\ chi' = <<p>>
        /\ uv' = <<chi2u(rend, p)>>
        /\ uv_twin' = <<chi2u(Closure(ToggleMounting(args)), p)>>
        /\ UNCHANGED <<args, built, rend, provider_queries, frame_vars, joy_vars>>

NextProjector == Project

SpecProjector == InitProjector /\ [][NextProjector]_vars

(***************************************************************************)
(* A renderer's life: the factory is called once, then draw_robot_fn is    *)
(* called frame after frame by a caller who may write into the frames it   *)
(* was given.                                                              *)
(***************************************************************************)
NoArgs == FactoryArgs(0, 0, 1, 1, 1, 0, 0, FALSE, FALSE, FALSE, FALSE)

Init ==
    /\ args = NoArgs
    /\ built = "unbuilt"
    /\ rend = Closure(NoArgs)
    /\ provider_queries = 0
    /\ chi = <<>>
    /\ uv = <<>>
    /\ uv_twin = <<>>
    /\ NoFrameYet
    /\ NoJoyNode

\* robot_rendering_factory(...): the only thing that can fail is the addition
\* lpc + l + ldc of arrays whose shapes do not broadcast
Factory ==
    \E a \in FrameArgs :
        /\ built = "unbuilt"
        /\ args' = a
        /\ IF LengthsAddable(a.params)
           THEN /\ built' = "ok"
                /\ rend' = Closure(a)
                /\ provider_queries' = ProviderQueriesAtConstruction(a)
           ELSE /\ built' = "config_error"
                /\ UNCHANGED <<rend, provider_queries>>
        /\ UNCHANGED <<projector_vars, frame_vars, joy_vars>>

\* draw_robot_fn(q, chiee_des, chiee_at, active_attraction_axis).  Each stage
\* is bound through a one-element set, so that it is evaluated once.
DrawRobot ==
    /\ built = "ok"
    /\ calls < MaxFrames
    /\ \E q \in Configurations(rend.num_segments),
          chiee_des \in OptionalPoses(DesiredPose),
          chiee_at \in OptionalPoses(AttractorPose) :
       \E active_attraction_axis \in AxesTried(rend.num_segments, q) :
       \E sampled \in {SampledCurves(rend, q)}, chip_ps \in {PlatformPoses(rend, q)} :
       \E ws \in {DrawWorkspace(rend, InitBackground(rend, caller_img))} :
       \E ext \in {ExtendedCurves(rend, sampled)}, curves \in {PlatformCurves(rend, chip_ps)} :
       \E painted \in {PaintRobot(rend, ws.img, q, chiee_des, chiee_at,
                                  active_attraction_axis, ext, curves)} :
       \E out \in {Outcome(rend, args, q, sampled, ws, ext, curves, painted)} :
       \E c \in {[ q |-> q, chiee_des |-> chiee_des, chiee_at |-> chiee_at,
                   active_attraction_axis |-> active_attraction_axis ]} :
            /\ calls' = calls + 1
            /\ call' = <<c>>
            /\ result' = out.result
            /\ img' = out.img
            /\ caller_img' = out.img
            /\ chi_ps' = out.chi_ps
            /\ ext_ps' = out.ext_ps
            /\ platform_curves' = out.platform_curves
            /\ ws_projections' = ws_projections + out.projections
            /\ provider_queries' = provider_queries + out.queries
            /\ fk_failures' = fk_failures + (IF out.result = "kinematics_error" THEN 1 ELSE 0)
            /\ ref' = IF ref = <<>> /\ c \in ReferenceCalls(rend.num_segments)
                      THEN <<[call |-> c, result |-> out.result, img |-> out.img]>>
                      ELSE ref
            /\ UNCHANGED <<args, built, rend, projector_vars, caller_wrote, joy_vars>>

Scribble == Op("caller", "write", <<1, 2, 3>>, <<>>, 0, 0)

\* the caller writes into the frame it was given
CallerModifiesFrame ==
    /\ result = "frame"
    /\ caller_img = img
    /\ caller_img' = Paint(caller_img, Scribble)
    /\ caller_wrote' = TRUE
    /\ UNCHANGED <<args, built, rend, provider_queries, projector_vars, calls, call,
                   result, img, chi_ps, ext_ps, platform_curves, ws_projections,
                   fk_failures, ref, joy_vars>>

Next == Factory \/ DrawRobot \/ CallerModifiesFrame

Spec == Init /\ [][Next]_vars

(***************************************************************************)
(* The joystick node's life: it is constructed with its parameters, then   *)
(* rclpy.spin calls joy_signal_callback once for every Joy message         *)
(* delivered, one call after the other.                                    *)
(***************************************************************************)
InitJoy ==
    /\ args = NoArgs
    /\ built = "unbuilt"
    /\ rend = Closure(NoArgs)
    /\ provider_queries = 0
    /\ chi = <<>>
    /\ uv = <<>>
    /\ uv_twin = <<>>
    /\ NoFrameYet
    /\ \E p \in JoyParameters :
        /\ cartesian_delta = p.cartesian_delta
        /\ invert_joy_signals = p.invert_joy_signals
        /\ pee_y0 = p.pee_y0
        /\ pee_wp = <<0, p.pee_y0>>
    /\ node_state = "spinning"
    /\ joy_signals = <<>>
    /\ attractor_pub = <<>>

\* joy_signal_callback(msg).  Axes that do not broadcast against the
\* two-element pee_wp raise in the subtraction or addition, before pee_wp is
\* assigned and before anything is published; the exception ends rclpy.spin.
JoySignalCallback ==
    /\ node_state = "spinning"
    /\ Len(joy_signals) < MaxJoy
    /\ \E joy_signal \in JoyAxes :
        /\ joy_signals' = Append(joy_signals, joy_signal)
        /\ IF Broadcastable(pee_wp, joy_signal)
           THEN /\ pee_wp' = NextAttractor(invert_joy_signals, cartesian_delta,
                                           pee_wp, joy_signal)
                /\ attractor_pub' = Append(attractor_pub, PlanarSetpoint(pee_wp'))
                /\ UNCHANGED node_state
           ELSE /\ node_state' = "crashed"
                /\ UNCHANGED <<pee_wp, attractor_pub>>
    /\ UNCHANGED <<args, built, rend, provider_queries, projector_vars, frame_vars,
                   cartesian_delta, invert_joy_signals, pee_y0>>

NextJoy == JoySignalCallback

SpecJoy == InitJoy /\ [][NextJoy]_vars

(***************************************************************************)
(* Claims about the projector, checked under SpecProjector.                *)
(***************************************************************************)
\* the offset chi2u added to the origin, and the offset before the mounting branch
PixelOffset(a, px) == [u |-> px.u - uv_robot_origin(a).u, v |-> px.v - uv_robot_origin(a).v]

RawOffset(a, px) ==
    IF a.inverted_coordinates
    THEN [u |-> -PixelOffset(a, px).u, v |-> PixelOffset(a, px).v]
    ELSE [u |-> PixelOffset(a, px).u, v |-> -PixelOffset(a, px).v]

\* C1: a pose at the Cartesian origin, with any theta, projects to
\* (width // 2, height) under normal mounting and to (width // 2, 0) under
\* inverted mounting, for every canvas width and height.
C1_ProjectionIdentity ==
    (chi # <<>> /\ chi[1].x = 0 /\ chi[1].y = 0) =>
        uv[1] = IF args.inverted_coordinates
                THEN [u |-> args.width \div 2, v |-> 0]
                ELSE [u |-> args.width \div 2, v |-> args.height]

C1_Witness ==
    /\ chi # <<>> /\ chi[1].x = 0 /\ chi[1].y = 0 /\ chi[1].th = 1
    /\ args.inverted_coordinates /\ args.width = 5 /\ args.height = 6
    /\ uv[1] = [u |-> 2, v |-> 0]

\* C2 as claimed: between the inverted and the normal renderer the sign of the
\* position's contribution is flipped on exactly one pixel axis and the other
\* axis maps the same way.
C2_ExactlyOneAxisFlipped ==
    chi # <<>> =>
        LET a == PixelOffset(args, uv[1])
            b == PixelOffset(ToggleMounting(args), uv_twin[1])
        IN  \/ (a.u = -b.u /\ a.v = b.v)
            \/ (a.u = b.u /\ a.v = -b.v)

\* C2 as amended: each renderer negates exactly one component (v under normal
\* mounting, u under inverted mounting), so between the two renderers the
\* sign of the contribution is flipped on both pixel axes.
C2_BothAxesFlipped ==
    chi # <<>> =>
        LET a == PixelOffset(args, uv[1])
            b == PixelOffset(ToggleMounting(args), uv_twin[1])
        IN  /\ a.u = -b.u
            /\ a.v = -b.v
            /\ IF args.inverted_coordinates
               THEN a.u * chi[1].x <= 0 /\ a.v * chi[1].y >= 0
               ELSE a.u * chi[1].x >= 0 /\ a.v * chi[1].y <= 0

C2_Witness ==
    /\ chi # <<>>
    /\ PixelOffset(args, uv[1]).u # 0
    /\ PixelOffset(args, uv[1]).v # 0
    /\ PixelOffset(ToggleMounting(args), uv_twin[1]).u = -PixelOffset(args, uv[1]).u
    /\ PixelOffset(ToggleMounting(args), uv_twin[1]).v = -PixelOffset(args, uv[1]).v

\* whether the integer off is the real number num / den rounded to nearest
IsNearest(off, num, den) == Abs(2 * num - 2 * off * den) <= den

\* whether the integer off is the real number num / den with its fraction dropped
IsTruncation(off, num, den) ==
    /\ den * Abs(off) <= Abs(num)
    /\ Abs(num) < den * (Abs(off) + 1)
    /\ off * num >= 0

\* C3 as claimed: each offset component is pixels-per-meter times the
\* position component rounded to the nearest integer.
C3_RoundsToNearest ==
    chi # <<>> =>
        /\ IsNearest(RawOffset(args, uv[1]).u, chi[1].x * rend.ppm_num, rend.ppm_den)
        /\ IsNearest(RawOffset(args, uv[1]).v, chi[1].y * rend.ppm_num, rend.ppm_den)

\* C3 as amended: each offset component is pixels-per-meter times the
\* position component with the fractional part dropped (rounded toward zero).
C3_TruncatesTowardZero ==
    chi # <<>> =>
        /\ IsTruncation(RawOffset(args, uv[1]).u, chi[1].x * rend.ppm_num, rend.ppm_den)
        /\ IsTruncation(RawOffset(args, uv[1]).v, chi[1].y * rend.ppm_num, rend.ppm_den)

\* a negative scaled value whose fractional part is at least one half
C3_Witness ==
    /\ chi # <<>>
    /\ chi[1].x < 0
    /\ 2 * ((-(chi[1].x * rend.ppm_num)) % rend.ppm_den) >= rend.ppm_den
    /\ ~IsNearest(RawOffset(args, uv[1]).u, chi[1].x * rend.ppm_num, rend.ppm_den)

(***************************************************************************)
(* Claims about the frames, checked under Spec.                            *)
(***************************************************************************)
CurveNames == {"v", "L", "R"}

\* C4: for the sample count N = num_points, each extended curve of a frame
\* (virtual backbone, left rod, right rod) has exactly N + 2 points: the
\* proximal-cap point, the N sampled poses in their order, the distal-cap point.
C4_ExtendedCurveHasTwoMorePoints ==
    result = "frame" =>
        \A c \in CurveNames :
            LET n == args.num_points
                ldc == args.params.ldc[Len(args.params.ldc)]
            IN  /\ Len(chi_ps[c]) = n
                /\ Len(ext_ps[c]) = n + 2
                /\ SubSeq(ext_ps[c], 2, n + 1) = chi_ps[c]
                /\ ext_ps[c][1].x = chi_ps[c][1].x
                /\ ext_ps[c][1].y = chi_ps[c][1].y - args.params.lpc[1]
                /\ ext_ps[c][n + 2].x = chi_ps[c][n].x - Sin4(chi_ps[c][n].th) * ldc
                /\ ext_ps[c][n + 2].y = chi_ps[c][n].y + Cos4(chi_ps[c][n].th) * ldc

C4_Witness ==
    /\ result = "frame"
    /\ args.num_points = 2
    /\ Len(ext_ps.L) = 4
    /\ chi_ps.L[1] # chi_ps.L[2]
    /\ chi_ps.L[2].th % 4 = 2
    /\ ext_ps.L[4].y = chi_ps.L[2].y - 1

PlatformOps == SelectSeq(img.ops, LAMBDA o : o.layer = "platform")

\* C5: for every segment index and every configuration the platform polygon
\* has the five vertices lower-left, upper-left, upper-right, lower-right,
\* lower-left, so its first and last vertices are identical, before and after
\* the projection to pixels.
C5_PlatformPolygonClosed ==
    result = "frame" =>
        /\ Len(platform_curves) = Len(args.params.l)
        /\ Len(PlatformOps) = Len(args.params.l)
        /\ \A i \in 1..Len(platform_curves) :
            LET poly == platform_curves[i]
                chip == forward_kinematics_platform_fn(args.params, call[1].q, i - 1)
                dim == PcudimRow(args.params, i)
            IN  /\ Len(poly) = 5
                /\ poly[1] = PlatformCorner(chip, dim, -1, -1)
                /\ poly[2] = PlatformCorner(chip, dim, -1, 1)
                /\ poly[3] = PlatformCorner(chip, dim, 1, 1)
                /\ poly[4] = PlatformCorner(chip, dim, 1, -1)
                /\ poly[5] = poly[1]
                /\ Len(PlatformOps[i].pts) = 5
                /\ PlatformOps[i].pts[5] = PlatformOps[i].pts[1]
                /\ PlatformOps[i].pts = batched_chi2u(rend, poly)

\* two platforms, the second one rotated, with four distinct corners each
C5_Witness ==
    /\ result = "frame"
    /\ Len(platform_curves) = 2
    /\ forward_kinematics_platform_fn(args.params, call[1].q, 1).th % 4 = 1
    /\ Cardinality({platform_curves[2][k] : k \in 1..5}) = 4
    /\ platform_curves[2][5] = platform_curves[2][1]

SegmentCountsConsistent(p) ==
    /\ Len(p.lpc) = Len(p.l)
    /\ Len(p.ldc) = Len(p.l)
    /\ Len(p.pcudim) = Len(p.l)

\* C6: a factory given geometry arrays of inconsistent segment counts fails
\* at construction and returns no draw function, so no frame is ever
\* rendered from such geometry.
C6_InconsistentGeometryRejected ==
    /\ built = "ok" => SegmentCountsConsistent(args.params)
    /\ result = "frame" => SegmentCountsConsistent(args.params)

\* C7: a draw_robot_fn call with a configuration of the wrong length fails
\* and returns no frame.
C7_MalformedConfigurationRejected ==
    (call # <<>> /\ Len(call[1].q) # 3 * Len(args.params.l)) =>
        /\ result # "frame"
        /\ img = NoImg

\* C8: after any earlier calls, failed ones and writes of the caller into
\* returned frames included, a call with the same configuration and the same
\* annotations as an earlier call returns the same frame.
C8_FrameDependsOnlyOnArguments ==
    (ref # <<>> /\ call # <<>> /\ call[1] = ref[1].call) =>
        /\ result = ref[1].result
        /\ img = ref[1].img

\* the third call repeats the remembered one, after a rejected call and after
\* the caller wrote into an earlier frame
C8_Witness ==
    /\ calls = 3
    /\ ref # <<>>
    /\ call[1] = ref[1].call
    /\ result = "frame"
    /\ img = ref[1].img
    /\ fk_failures = 1
    /\ caller_wrote
    /\ caller_img = img

\* C9 as claimed: with the overlay enabled the provider is asked once and the
\* polygon is projected to pixels exactly once, at construction, however many
\* frames are drawn, and the cached polygon never changes.
C9_ProjectedOnceAtConstruction ==
    (built = "ok" /\ args.draw_operational_workspace) =>
        /\ provider_queries = 1
        /\ ws_projections = 1
        /\ rend.ws_boundary_ps = ws_boundary_ps(args)

\* C9 as amended: with the overlay enabled the provider is asked exactly once,
\* at construction, and the Cartesian polygon cached then never changes; the
\* polygon is projected to pixels by every draw_robot_fn call that gets past
\* the kinematics evaluation, and not at construction.  Without the overlay
\* the provider is never asked and nothing is projected.
C9_QueriedOnceProjectedPerFrame ==
    built = "ok" =>
        IF args.draw_operational_workspace
        THEN /\ provider_queries = 1
             /\ rend.ws_boundary_ps =
                    LET b == get_operational_workspace_boundaries(
                                 args.hsa_material, end_effector_attached(args.params))
                    IN  b.pee_min_ps \o Reverse(b.pee_max_ps)
             /\ ws_projections = calls - fk_failures
        ELSE /\ provider_queries = 0
             /\ rend.ws_boundary_ps = <<>>
             /\ ws_projections = 0

C9_Witness ==
    /\ built = "ok"
    /\ args.draw_operational_workspace
    /\ calls = 3
    /\ fk_failures = 1
    /\ ws_projections = 2
    /\ provider_queries = 1

Rank(op) ==
    CASE op.layer = "background" -> 1
      [] op.layer = "workspace" -> 2
      [] op.layer = "rod_left" -> 3
      [] op.layer = "rod_right" -> 4
      [] op.layer = "platform" -> 5
      [] op.layer = "setpoint" -> 6
      [] op.layer = "attractor" -> 7
      [] op.layer = "end_effector" -> 8
      [] op.layer = "arrow" -> 9
      [] OTHER -> 0

\* C10: the paint operations of a frame occur in the order background,
\* workspace polygon, left rod, right rod, platforms by increasing segment
\* index, setpoint circle, attractor square, end-effector circle, arrows; the
\* end-effector circle comes after the setpoint circle and the attractor square.
C10_PaintOrder ==
    result = "frame" =>
        /\ Len(img.ops) >= 3
        /\ img.ops[1].layer = "background"
        /\ \A i \in 1..Len(img.ops) : Rank(img.ops[i]) >= 1
        /\ \A i \in 1..Len(img.ops), j \in 1..Len(img.ops) :
            i < j =>
                \/ Rank(img.ops[i]) < Rank(img.ops[j])
                \/ /\ Rank(img.ops[i]) = Rank(img.ops[j])
                   /\ img.ops[i].layer \in {"platform", "arrow"}
                   /\ img.ops[i].idx < img.ops[j].idx

\* a frame with every kind of paint operation: overlay, two rods, two
\* platforms, setpoint, attractor, end effector, two arrows
C10_Witness ==
    /\ result = "frame"
    /\ Len(img.ops) = 11
    /\ {img.ops[i].layer : i \in 1..Len(img.ops)} =
           { "background", "workspace", "rod_left", "rod_right", "platform",
             "setpoint", "attractor", "end_effector", "arrow" }
    /\ img.ops[9].layer = "end_effector"

(***************************************************************************)
(* Claims about the optional markers, the buffer and the arrows.           *)
(***************************************************************************)
\* the paint operations of the last frame on one layer
LayerOps(layer) == SelectSeq(img.ops, LAMBDA o : o.layer = layer)

\* C11: in every frame a setpoint circle is painted iff a desired pose was
\* passed, an attractor square iff an attractor pose was passed, and the
\* end-effector circle iff at least one of the two was passed; each of them is
\* painted once at most, so a call with only a setpoint paints one setpoint
\* circle, one end-effector circle and no square, and a call with neither
\* paints none of the three.
C11_MarkersFollowAnnotations ==
    result = "frame" =>
        LET c == call[1]
            nset == Len(LayerOps("setpoint"))
            natt == Len(LayerOps("attractor"))
            nee == Len(LayerOps("end_effector"))
        IN  /\ nset = (IF c.chiee_des # <<>> THEN 1 ELSE 0)
            /\ natt = (IF c.chiee_at # <<>> THEN 1 ELSE 0)
            /\ nee = (IF c.chiee_des # <<>> \/ c.chiee_at # <<>> THEN 1 ELSE 0)
            /\ \A i \in 1..Len(img.ops) :
                /\ img.ops[i].layer \in {"setpoint", "end_effector"} =>
                        img.ops[i].shape = "circle" /\ Len(img.ops[i].pts) = 1
                /\ img.ops[i].layer = "attractor" =>
                        img.ops[i].shape = "rectangle" /\ Len(img.ops[i].pts) = 2
                /\ img.ops[i].shape = "rectangle" => img.ops[i].layer = "attractor"
                /\ img.ops[i].shape = "circle" =>
                        img.ops[i].layer \in {"setpoint", "end_effector"}

\* a frame drawn with an attractor only: one square and the end-effector
\* circle, no setpoint circle
C11_Witness ==
    /\ result = "frame"
    /\ call[1].chiee_des = <<>>
    /\ call[1].chiee_at # <<>>
    /\ Len(LayerOps("attractor")) = 1
    /\ Len(LayerOps("end_effector")) = 1
    /\ Len(LayerOps("setpoint")) = 0

\* C12: the buffer of a frame has height rows, width columns and 3 channels,
\* so that a pixel (u, v) with 0 <= u < width and 0 <= v < height, which cv2
\* stores at row v and column u, lies inside the buffer.
C12_BufferIsHeightByWidth ==
    result = "frame" =>
        /\ img.rows = args.height
        /\ img.cols = args.width
        /\ img.channels = 3
        /\ \A u \in 0..(args.width - 1), v \in 0..(args.height - 1) :
            v < img.rows /\ u < img.cols

\* the arrow origin of draw_robot_fn
ArrowOrigin == [u |-> 25, v |-> 25]

\* two arrows from the arrow origin whose tips are mirror images of each other
\* along the axis (du, dv)
OpposedArrows(arrows, du, dv) ==
    /\ Len(arrows) = 2
    /\ \A i \in 1..2 :
        /\ arrows[i].shape = "arrowedLine"
        /\ Len(arrows[i].pts) = 2
        /\ arrows[i].pts[1] = ArrowOrigin
    /\ \E len \in 1..25 :
        /\ arrows[1].pts[2] = [u |-> ArrowOrigin.u + len * du, v |-> ArrowOrigin.v + len * dv]
        /\ arrows[2].pts[2] = [u |-> ArrowOrigin.u - len * du, v |-> ArrowOrigin.v - len * dv]

\* C13: a frame drawn with active axis 0 has exactly two arrows, both starting
\* at the arrow origin and pointing in opposite horizontal directions; with
\* active axis 1 it has exactly two arrows from the same point in opposite
\* vertical directions; with any other value it has no arrow.  This holds
\* whichever of the setpoint and the attractor were passed.
C13_ArrowsFollowActiveAxis ==
    result = "frame" =>
        LET axis == call[1].active_attraction_axis
            arrows == LayerOps("arrow")
        IN  /\ axis = 0 => OpposedArrows(arrows, 1, 0)
            /\ axis = 1 => OpposedArrows(arrows, 0, 1)
            /\ axis \notin {0, 1} => arrows = <<>>
            /\ \A i \in 1..Len(img.ops) :
                img.ops[i].shape = "arrowedLine" => img.ops[i].layer = "arrow"

\* a frame drawn with the y axis active and neither setpoint nor attractor:
\* two vertical arrows and no marker
C13_Witness ==
    /\ result = "frame"
    /\ call[1].active_attraction_axis = 1
    /\ call[1].chiee_des = <<>>
    /\ call[1].chiee_at = <<>>
    /\ Len(LayerOps("arrow")) = 2
    /\ LayerOps("arrow")[1].pts[2].u = ArrowOrigin.u
    /\ LayerOps("arrow")[1].pts[2].v # LayerOps("arrow")[2].pts[2].v
    /\ LayerOps("end_effector") = <<>>

(***************************************************************************)
(* Claims about the joystick control node, checked under SpecJoy.          *)
(***************************************************************************)
\* the sum of axis i over the first k joy messages
AxisSum(i, k) == SumSeq([j \in 1..k |-> joy_signals[j][i]])

\* the initial position (0, pee_y0) minus (inverted) or plus cartesian_delta
\* times the sum of the first k joy messages
ExpectedAttractor(k) ==
    LET sign == IF invert_joy_signals THEN -1 ELSE 1
    IN  << 0 + sign * cartesian_delta * AxisSum(1, k),
           pee_y0 + sign * cartesian_delta * AxisSum(2, k) >>

AllTwoAxes == \A j \in 1..Len(joy_signals) : Len(joy_signals[j]) = 2

\* C14: after joy messages s_1..s_n with two axes each, pee_wp is (0, pee_y0)
\* minus cartesian_delta times the sum of the s_i when invert_joy_signals is
\* set and plus that sum otherwise; one attractor message was published per
\* joy message, the k-th carrying the position as updated by the k-th joy
\* message and theta = 0.
C14_AttractorIntegratesJoySignals ==
    (node_state # "unstarted" /\ AllTwoAxes) =>
        /\ node_state = "spinning"
        /\ pee_wp = ExpectedAttractor(Len(joy_signals))
        /\ Len(attractor_pub) = Len(joy_signals)
        /\ \A k \in 1..Len(attractor_pub) :
            attractor_pub[k] =
                [chiee_des |-> [ x |-> ExpectedAttractor(k)[1],
                                 y |-> ExpectedAttractor(k)[2], theta |-> 0 ]]

\* three joy messages to a node that does not invert, the attractor having
\* moved on both axes and every message having published a different position
C14_Witness ==
    /\ node_state = "spinning"
    /\ ~invert_joy_signals
    /\ AllTwoAxes
    /\ Len(joy_signals) = 3
    /\ Len(attractor_pub) = 3
    /\ pee_wp[1] # 0
    /\ pee_wp[2] # pee_y0
    /\ attractor_pub[1] # attractor_pub[2]
    /\ attractor_pub[2] # attractor_pub[3]
    /\ attractor_pub[3].chiee_des.x = pee_wp[1]

=============================================================================
